---------------------------- MODULE Spec2Model ----------------------------
(***************************************************************************)
(* Model of the molecular database screening notebook DB_Screening.ipynb.  *)
(*                                                                         *)
(* The notebook is a sequence of cells that assign notebook globals        *)
(* (database, random_sel, X, y, threshold, ...).  Each cell is one action; *)
(* the pandas / numpy / scikit-learn calls a cell makes are operators that *)
(* compute what the call computes on the rows it is given.                 *)
(*                                                                         *)
(* A row of a DataFrame is a record                                        *)
(*    [id, label, RDKit, Scores]  (+ Predictions once the Scorer ran)      *)
(* where id is the identity of the compound (its position in the loaded    *)
(* table; never visible to the code), label is the row's index label       *)
(* (what DataFrame.index holds and what DataFrame.drop matches on), RDKit  *)
(* is the fingerprint and Scores the docking score (a float, maybe NaN).   *)
(***************************************************************************)
EXTENDS Integers, Sequences, FiniteSets, TLC

\* ------------------------------------------------------------------ bounds
MaxRows == 3
MaxRuns == 2
MaxLigands == 3
MaxSample == 6

\* ------------------------------------------------------------ float values
\* The float NaN of the Scores column (a missing score).  Every comparison
\* with NaN is False, as in IEEE 754 / numpy.
NaN == 1000

Gt(a, b) == a # NaN /\ b # NaN /\ a > b
Lt(a, b) == a # NaN /\ b # NaN /\ a < b
Le(a, b) == a # NaN /\ b # NaN /\ a <= b

\* ------------------------------------------------------------ sequences
Range(s) == {s[i] : i \in 1..Len(s)}

Ids(df) == {df[i].id : i \in 1..Len(df)}

RECURSIVE Keep(_, _)
\* rows of df at the positions where mask is TRUE, in df's order
Keep(df, mask) ==
    IF df = <<>> THEN <<>>
    ELSE IF Head(mask) THEN <<Head(df)>> \o Keep(Tail(df), Tail(mask))
         ELSE Keep(Tail(df), Tail(mask))

\* ---------------------------------------------------------- filter cell
\* database.Scores > 0 : the boolean mask, one entry per row
ScoresPositive(df) == [i \in 1..Len(df) |-> Gt(df[i].Scores, 0)]

\* database[mask] : boolean indexing keeps the rows whose mask entry is True
BoolIndex(df, mask) == Keep(df, mask)

\* df.index : the row labels, in row order
Index(df) == [i \in 1..Len(df) |-> df[i].label]

\* DataFrame.drop by position instead of by label (iloc/loc confusion)
DropByPosition(df, labels) ==
    Keep(df, [i \in 1..Len(df) |-> (i - 1) \notin Range(labels)])

\* DataFrame.drop(labels): a new frame without every row whose index label
\* is one of labels (all rows carrying a listed label go).
Drop(df, labels) ==
    Keep(df, [i \in 1..Len(df) |-> df[i].label \notin Range(labels)])

\* DataFrame.drop(labels, inplace=True): the frame it is called on loses the
\* rows itself
DropSourceInplace(df, labels) == Drop(df, labels)

\* the frame drop was called on, after the call: drop's default inplace=False
\* builds the result from a copy and leaves this frame as it was
DropSource(df, labels) == df

\* the statement without the assignment: database.drop(...) is not in place
FilterCellNoAssign(df) == df

\* database = database.drop(database[ database.Scores > 0 ].index)
FilterCell(df) == Drop(df, Index(BoolIndex(df, ScoresPositive(df))))

VARIABLES
    loaded,         \* the table as read by pd.read_pickle (history)
    database,       \* the notebook global `database`
    removed,        \* ids of the rows the filter cell has dropped (history)
    before,         \* `database` as it was before the last filter run (history)
    source,         \* the frame object the last filter run was applied to, as
                    \* that run left it
    filter_runs,    \* how many times the filter cell has run
    ligands,        \* the ligand files found by lig_library.glob
    N_TO_DOCK,      \* how many of them the docking cell is asked to dock
    docking_scores, \* the list the docking loop appends to
    lig_pos,        \* position of the for loop in ligands[:N_TO_DOCK]
    dock_pc,        \* "start", "loop", "done" or "raised" (exception left the cell)
    docked,         \* positions of the ligands whose score was appended (history)
    failed_at,      \* position of the ligand the engine failed on, 0 if none (history)
    pc,             \* the next cell of the screening part of the notebook
    raised,         \* the cells whose execution ended in an exception
    seed_stream,    \* which random stream the seed 42 selects (never changes)
    random_sel,     \* the random sample of the database
    sample_runs,    \* how many times the sample cell has run
    first_sel,      \* random_sel as its first execution left it (history)
    X,              \* list of the sample's fingerprints
    split_cls,      \* the classifier's split: rows of X/y_cls in train and test
    clf,            \* the RandomForestClassifier
    y_pred_cls,     \* clf.predict(X_test_cls) and the rows it was computed for
    split_reg,      \* the regressor's split: rows of X/y in train and test
    split_runs,     \* how many times the regressor's split cell has run
    first_split,    \* split_reg as its first execution left it (history)
    reg,            \* the RandomForestRegressor
    y_pred,         \* reg.predict(X_test) and the rows it was computed for
    evaluated,      \* the metrics computed so far, with the rows they used (history)
    y,              \* list of the sample's scores
    threshold,      \* np.percentile(y,30), held in tenths (10*threshold), or NaN
    y_cls,          \* list of booleans: the sample's class labels
    N_SAMPLE,       \* size of the random sample and of the biased selection
    predicted_scores, \* reg.predict over the whole database
    biased_sel      \* the top-N_SAMPLE rows by predicted score

filterVars == <<loaded, database, removed, before, source, filter_runs>>
dockVars == <<ligands, N_TO_DOCK, docking_scores, lig_pos, dock_pc, docked,
              failed_at>>
sampleVars == <<random_sel, sample_runs, first_sel>>
labelVars == <<X, y, threshold, y_cls>>
clsVars == <<split_cls, clf, y_pred_cls>>
regVars == <<split_reg, split_runs, first_split, reg, y_pred>>
trainVars == <<sampleVars, labelVars, clsVars, regVars, evaluated>>
scoreVars == <<predicted_scores, biased_sel>>
ctlVars == <<pc, raised, seed_stream, N_SAMPLE>>
vars == <<filterVars, dockVars, trainVars, scoreVars, ctlVars>>

Min(a, b) == IF a <= b THEN a ELSE b

\* ---------------------------------------------------------- loaded tables
\* the table of n rows whose (label, fingerprint, score) are f[1..n]
Table(n, f) ==
    [i \in 1..n |-> [id |-> i, label |-> f[i][1], RDKit |-> f[i][2],
                     Scores |-> f[i][3]]]

\* scores [-9,-8,-7,-6,-5,-4,-3,-2,-1,1] under a RangeIndex
ScenarioScores == <<-9, -8, -7, -6, -5, -4, -3, -2, -1, 1>>
ScenarioTable ==
    [i \in 1..10 |-> [id |-> i, label |-> i - 1, RDKit |-> 1,
                      Scores |-> ScenarioScores[i]]]

FilterLabels == 0..(MaxRows - 1)
FilterScores == {-1, 0, 1, NaN}

\* the state of a section of the notebook that has not been executed
FilterIdle ==
    /\ loaded = <<>>
    /\ database = <<>>
    /\ removed = {}
    /\ before = <<>>
    /\ source = <<>>
    /\ filter_runs = 0

DockIdle ==
    /\ ligands = <<>>
    /\ N_TO_DOCK = 0
    /\ docking_scores = <<>>
    /\ lig_pos = 0
    /\ dock_pc = "start"
    /\ docked = {}
    /\ failed_at = 0

NoSplit == [train |-> <<>>, test |-> <<>>]
Unfitted == [fitted |-> FALSE, rows |-> <<>>, f |-> <<>>]
NoPrediction == [rows |-> <<>>, values |-> <<>>]

SampleIdle ==
    /\ random_sel = <<>>
    /\ sample_runs = 0
    /\ first_sel = <<>>

LabelIdle ==
    /\ X = <<>>
    /\ y = <<>>
    /\ threshold = 0
    /\ y_cls = <<>>

ModelsIdle ==
    /\ split_cls = NoSplit
    /\ clf = Unfitted
    /\ y_pred_cls = NoPrediction
    /\ split_reg = NoSplit
    /\ split_runs = 0
    /\ first_split = NoSplit
    /\ reg = Unfitted
    /\ y_pred = NoPrediction
    /\ evaluated = {}

TrainIdle == SampleIdle /\ LabelIdle /\ ModelsIdle

ScoreIdle ==
    /\ predicted_scores = <<>>
    /\ biased_sel = <<>>

InitFilter ==
    /\ DockIdle
    /\ TrainIdle
    /\ ScoreIdle
    /\ pc = "filter"
    /\ raised = {}
    /\ seed_stream = 0
    /\ N_SAMPLE = 0
    /\ \/ \E n \in 0..MaxRows :
             \E f \in [1..n -> FilterLabels \X {1} \X FilterScores] :
                loaded = Table(n, f)
       \/ loaded = ScenarioTable
    /\ database = loaded
    /\ removed = {}
    /\ before = loaded
    /\ source = loaded
    /\ filter_runs = 0

\* what executing the filter cell does to the notebook's globals
FilterEffect ==
    /\ database' = FilterCell(database)
    /\ removed' = removed \cup (Ids(database) \ Ids(Drop(database,
                      Index(BoolIndex(database, ScoresPositive(database))))))
    /\ before' = database
    /\ source' = DropSource(database,
                     Index(BoolIndex(database, ScoresPositive(database))))
    /\ filter_runs' = filter_runs + 1
    /\ UNCHANGED <<loaded, dockVars, trainVars, scoreVars, raised,
                   seed_stream, N_SAMPLE>>

\* the filter cell is executed (a notebook cell can be executed again)
RunFilterCell ==
    /\ filter_runs < MaxRuns
    /\ FilterEffect
    /\ UNCHANGED pc

NextFilter == RunFilterCell

SpecFilter == InitFilter /\ [][NextFilter]_vars

\* ------------------------------------------------- claims C1, C2, C11, C14
\* C1: after the filter cell, the database holds only rows of the database it
\* was applied to, and every retained row satisfies the default predicate
\* Scores <= 0 (also when some row's score is NaN).
C1_FilterKeepsOnlyValid ==
    filter_runs >= 1 =>
        \A i \in 1..Len(database) :
            /\ database[i] \in Range(before)
            /\ Le(database[i].Scores, 0)

\* C2: the filter is idempotent: run on an already filtered database, the
\* filter cell returns the same rows in the same order.
C2_FilterIdempotent ==
    filter_runs >= 2 => database = before

\* the cell has run twice on a table from which the first run dropped a row
\* and kept another
C2_Witness ==
    /\ filter_runs = 2
    /\ removed # {}
    /\ database # <<>>

C14_FilterKeepsEveryValidRow ==
    filter_runs >= 1 =>
        /\ \A a \in 1..Len(before) :
              Le(before[a].Scores, 0) => before[a].id \in Ids(database)
        /\ \A i, j \in 1..Len(database) : \A a, b \in 1..Len(before) :
              (i < j /\ before[a] = database[i] /\ before[b] = database[j])
                  => a < b

\* ---------------------------------------------------------- docking cell
\* total energies (kcal/mol) the engine may report for a best pose
DockEnergies == {-7, -5}

\* ligands[:N_TO_DOCK]
Slice(s, n) == SubSeq(s, 1, Min(n, Len(s)))

InitDock ==
    /\ FilterIdle
    /\ TrainIdle
    /\ ScoreIdle
    /\ pc = "filter"
    /\ raised = {}
    /\ seed_stream = 0
    /\ N_SAMPLE = 0
    /\ ligands \in {[i \in 1..n |-> i] : n \in 0..MaxLigands}
    /\ N_TO_DOCK = 0
    /\ docking_scores = <<>>
    /\ lig_pos = 0
    /\ dock_pc = "start"
    /\ docked = {}
    /\ failed_at = 0

\* docking_scores = []; N_TO_DOCK = 1 (a value the reader is invited to
\* change, "Max 10"); the for statement is entered
DockCellStart ==
    /\ dock_pc = "start"
    /\ \E n \in 0..(MaxLigands + 1) : N_TO_DOCK' = n
    /\ docking_scores' = <<>>
    /\ lig_pos' = 0
    /\ dock_pc' = "loop"
    /\ UNCHANGED <<ligands, docked, failed_at, filterVars, trainVars, scoreVars, ctlVars>>

\* one iteration of the loop body in which every engine call returns:
\* set_ligand_from_file, compute_vina_maps, dock, energies, append
DockLigand ==
    /\ dock_pc = "loop"
    /\ lig_pos < Len(Slice(ligands, N_TO_DOCK))
    /\ \E e \in DockEnergies :
          docking_scores' = Append(docking_scores, e)
    /\ lig_pos' = lig_pos + 1
    /\ docked' = docked \cup {lig_pos + 1}
    /\ UNCHANGED <<ligands, N_TO_DOCK, dock_pc, failed_at, filterVars, trainVars, scoreVars, ctlVars>>

\* one iteration in which an engine call raises: the loop body has no
\* try/except, so the exception leaves the for statement and the cell
DockLigandRaises ==
    /\ dock_pc = "loop"
    /\ lig_pos < Len(Slice(ligands, N_TO_DOCK))
    /\ failed_at' = lig_pos + 1
    /\ dock_pc' = "raised"
    /\ UNCHANGED <<ligands, N_TO_DOCK, docking_scores, lig_pos, docked,
                   filterVars, trainVars, scoreVars, ctlVars>>

\* the iterator over ligands[:N_TO_DOCK] is exhausted
DockLoopEnd ==
    /\ dock_pc = "loop"
    /\ lig_pos = Len(Slice(ligands, N_TO_DOCK))
    /\ dock_pc' = "done"
    /\ UNCHANGED <<ligands, N_TO_DOCK, docking_scores, lig_pos, docked,
                   failed_at, filterVars, trainVars, scoreVars, ctlVars>>

NextDock ==
    \/ DockCellStart
    \/ DockLigand
    \/ DockLigandRaises
    \/ DockLoopEnd

SpecDock == InitDock /\ [][NextDock]_vars

\* C6: in the docking loop a failure of the engine on one ligand does not
\* abort the batch: once the cell is over, every later ligand of
\* ligands[:N_TO_DOCK] has been docked and its score appended.
C6_FailureDoesNotAbortBatch ==
    (dock_pc \in {"done", "raised"} /\ failed_at # 0) =>
        \A i \in 1..Len(Slice(ligands, N_TO_DOCK)) :
            i > failed_at => i \in docked

\* ------------------------------------------------- categorical-data cell
RECURSIVE Insert(_, _)
\* v put into the ascending list s
Insert(v, s) ==
    IF s = <<>> THEN <<v>>
    ELSE IF v <= Head(s) THEN <<v>> \o s
         ELSE <<Head(s)>> \o Insert(v, Tail(s))

RECURSIVE Sorted(_)
\* the values of s in ascending order
Sorted(s) == IF s = <<>> THEN <<>> ELSE Insert(Head(s), Sorted(Tail(s)))

\* np.percentile(a, q) with the default linear interpolation, q a whole
\* number of tens of percent, in tenths: the virtual index is
\* (q/100)*(n-1) = k + r/10, the result s[k] + (r/10)*(s[k+1]-s[k]) of the
\* sorted values s (0-based).  NaN when any value is NaN.
Percentile10(a, q) ==
    IF \E i \in 1..Len(a) : a[i] = NaN THEN NaN
    ELSE LET s == Sorted(a)
             h == (q \div 10) * (Len(a) - 1)
             k == h \div 10
             r == h % 10
         IN  IF r = 0 THEN 10 * s[k + 1]
             ELSE 10 * s[k + 1] + r * (s[k + 2] - s[k + 1])

\* score <= threshold instead of score < threshold
IsActiveLe(score, thr10) == score # NaN /\ thr10 # NaN /\ 10 * score <= thr10

\* score < threshold, the threshold given in tenths
IsActive(score, thr10) == score # NaN /\ thr10 # NaN /\ 10 * score < thr10

\* threshold = np.percentile(y,30); y_cls = [ score < threshold for score in y]
MakeCategoricalCell ==
    /\ pc = "categorical"
    /\ IF "xy" \in raised
       THEN /\ raised' = raised \cup {"categorical"}      \* NameError: y
            /\ UNCHANGED <<threshold, y_cls>>
       ELSE /\ threshold' = Percentile10(y, 30)
            /\ y_cls' = [i \in 1..Len(y) |->
                            IsActive(y[i], Percentile10(y, 30))]
            /\ UNCHANGED raised
    /\ pc' = "split_cls"
    /\ UNCHANGED <<X, y, seed_stream, N_SAMPLE, sampleVars, clsVars, regVars,
                   evaluated, filterVars, dockVars, scoreVars>>

\* the 10 scores [-10..-1]
ScenarioY == <<-10, -9, -8, -7, -6, -5, -4, -3, -2, -1>>

LabelScores == {-4, -3, -2, -1, NaN}

InitLabel ==
    /\ FilterIdle
    /\ DockIdle
    /\ ScoreIdle
    /\ SampleIdle
    /\ ModelsIdle
    /\ N_SAMPLE = 0
    /\ raised = {}
    /\ seed_stream = 0
    /\ X = <<>>
    /\ \/ \E n \in 1..MaxSample : y \in [1..n -> LabelScores]
       \/ y = ScenarioY
    /\ threshold = 0
    /\ y_cls = <<>>
    /\ pc = "categorical"

NextLabel == MakeCategoricalCell

SpecLabel == InitLabel /\ [][NextLabel]_vars

\* number of records labelled active
NActive == Cardinality({i \in 1..Len(y_cls) : y_cls[i]})

NoNaN(s) == \A i \in 1..Len(s) : s[i] # NaN

Distinct(s) == \A i, j \in 1..Len(s) : i # j => s[i] # s[j]

WithPrediction(r, p) ==
    [id |-> r.id, label |-> r.label, RDKit |-> r.RDKit, Scores |-> r.Scores,
     Predictions |-> p]

RECURSIVE ArgSortsDescending(_, _)
\* the orders from the largest predicted score to the smallest
ArgSortsDescending(P, df) ==
    IF P = {} THEN {<<>>}
    ELSE UNION { { <<i>> \o t : t \in ArgSortsDescending(P \ {i}, df) } :
                 i \in {i \in P : \A j \in P :
                            df[i].Predictions >= df[j].Predictions} }

RECURSIVE ArgSortsFrom(_, _)
\* argsort(kind='quicksort') of the Predictions of the rows at positions P:
\* quicksort is not a stable sort, so every order of the positions that
\* puts the keys in ascending order is a possible result.
ArgSortsFrom(P, df) ==
    IF P = {} THEN {<<>>}
    ELSE UNION { { <<i>> \o t : t \in ArgSortsFrom(P \ {i}, df) } :
                 i \in {i \in P : \A j \in P :
                            df[i].Predictions <= df[j].Predictions} }

\* sort_values(..., ascending=False)
ArgSortsWrongOrder(df) == ArgSortsDescending(1..Len(df), df)

\* the possible row orders of df.sort_values(by=['Predictions'],
\* ascending=True), kind left at its default 'quicksort'
ArgSorts(df) == ArgSortsFrom(1..Len(df), df)

\* the rows of df taken in the order ix
Take(df, ix) == [i \in 1..Len(ix) |-> df[ix[i]]]

\* biased_sel = database.sort_values(by=['Predictions'], ascending=True)[:N_SAMPLE]
SelectCell ==
    /\ pc = "select"
    /\ IF "attach" \in raised
       THEN /\ raised' = raised \cup {"select"}     \* KeyError: 'Predictions'
            /\ UNCHANGED biased_sel
       ELSE /\ \E ix \in ArgSorts(database) :
                  biased_sel' = Slice(Take(database, ix), N_SAMPLE)
            /\ UNCHANGED raised
    /\ pc' = "end"
    /\ UNCHANGED <<seed_stream, N_SAMPLE, predicted_scores, filterVars,
                   dockVars, trainVars>>

PredVals == {-3, -2, -1}

\* the filtered scenario table, predicted scores [-9..-1]
ScenarioScored ==
    [i \in 1..9 |-> WithPrediction(ScenarioTable[i], ScenarioScores[i])]

\* the scored table of n rows whose predicted scores are f[1..n]
ScoredTable(n, f) ==
    [i \in 1..n |-> [id |-> i, label |-> i - 1, RDKit |-> 1, Scores |-> -1,
                     Predictions |-> f[i]]]

InitSelect ==
    /\ DockIdle
    /\ TrainIdle
    /\ \/ \E n \in 0..MaxRows : \E f \in [1..n -> PredVals] :
                loaded = ScoredTable(n, f)
       \/ loaded = ScenarioScored
    /\ database = loaded
    /\ removed = {}
    /\ before = loaded
    /\ source = loaded
    /\ filter_runs = 0
    /\ predicted_scores = [i \in 1..Len(loaded) |-> loaded[i].Predictions]
    /\ biased_sel = <<>>
    /\ N_SAMPLE \in 0..(MaxRows + 1)
    /\ raised = {}
    /\ seed_stream = 0
    /\ pc = "select"

NextSelect == SelectCell

SpecSelect == InitSelect /\ [][NextSelect]_vars

\* position in the database of the row of compound id
PosOf(df, id) == CHOOSE i \in 1..Len(df) : df[i].id = id

\* C4: the selection has exactly min(K, |D|) records of D, in ascending
\* order of predicted score, and no record left out has a smaller predicted
\* score than a selected one; K=3 on predictions [-9..-1] gives [-9,-8,-7].
C4_TopKSelection ==
    pc = "end" =>
        /\ Len(biased_sel) = Min(N_SAMPLE, Len(database))
        /\ \A i \in 1..Len(biased_sel) : biased_sel[i] \in Range(database)
        /\ Cardinality(Ids(biased_sel)) = Len(biased_sel)
        /\ \A i, j \in 1..Len(biased_sel) :
              i < j => biased_sel[i].Predictions <= biased_sel[j].Predictions
        /\ \A k \in 1..Len(database) : \A i \in 1..Len(biased_sel) :
              database[k].id \notin Ids(biased_sel)
                  => database[k].Predictions >= biased_sel[i].Predictions
        /\ (database = ScenarioScored /\ N_SAMPLE = 3) =>
              [i \in 1..Len(biased_sel) |-> biased_sel[i].Predictions]
                  = <<-9, -8, -7>>

\* a selection that cuts a database with tied predictions short
C4_Witness ==
    /\ pc = "end"
    /\ N_SAMPLE = 2
    /\ Len(database) = 3
    /\ Len(biased_sel) = 2
    /\ biased_sel[1].Predictions < biased_sel[2].Predictions
    /\ \E k \in 1..3 : /\ database[k].id \notin Ids(biased_sel)
                       /\ database[k].Predictions = biased_sel[2].Predictions

\* C5: the sort of the Selector is stable: records with equal predicted
\* score keep their order in the Database, in the selection and at the
\* cut-off K.
C5_TiesKeepOriginalOrder ==
    pc = "end" =>
        /\ \A i, j \in 1..Len(biased_sel) :
              (i < j /\ biased_sel[i].Predictions = biased_sel[j].Predictions)
                  => PosOf(database, biased_sel[i].id)
                       < PosOf(database, biased_sel[j].id)
        /\ \A k \in 1..Len(database) : \A i \in 1..Len(biased_sel) :
              (/\ database[k].id \notin Ids(biased_sel)
               /\ database[k].Predictions = biased_sel[i].Predictions)
                  => PosOf(database, biased_sel[i].id) < k

\* ------------------------------------------------------- random numbers
\* The notebook passes random_state=42 everywhere: each call builds a new
\* generator RandomState(42), which yields the same stream every time.  A
\* generator is [s: its stream, k: how many draws were made from it].  Which
\* permutations the stream of seed 42 holds is not known to the notebook;
\* seed_stream ranges over Streams.
Streams == {0, 1}

\* a generator taken from numpy's global state (random_state=None): every
\* earlier execution has advanced it
GlobalRandomState(seed) == [s |-> seed_stream, k |-> sample_runs + split_runs]

\* check_random_state(seed) / RandomState(seed), seed an int
CheckRandomState(seed) == [s |-> seed_stream, k |-> 0]

\* rng.permutation(n): the k-th draw of stream s, a permutation of 1..n
Permutation(g, n) ==
    LET r == (g.s + g.k) % n
        rot == [i \in 1..n |-> ((i - 1 + r) % n) + 1]
    IN  IF n = 0 THEN <<>>
        ELSE IF (g.s + g.k) % 2 = 1 THEN [i \in 1..n |-> rot[n + 1 - i]]
             ELSE rot

\* the generator after one more draw
Advance(g, d) == [s |-> g.s, k |-> g.k + d]

\* ------------------------------------------------------------ sample cell
\* DataFrame.sample(n, random_state, ignore_index=True) without replacement:
\* the rows at random_state.permutation(len)[:n], relabelled 0..n-1
Sample(df, n, g) ==
    LET locs == Slice(Permutation(g, Len(df)), n)
    IN  [i \in 1..Len(locs) |-> [df[locs[i]] EXCEPT !.label = i - 1]]

\* random_sel = database.sample(N_SAMPLE, random_state=42, ignore_index=True)
SampleResult(df, n) == Sample(df, n, CheckRandomState(42))

SampleCell ==
    /\ pc = "sample"
    /\ IF N_SAMPLE > Len(database)
       THEN /\ raised' = raised \cup {"sample"}  \* ValueError: larger sample
            /\ UNCHANGED <<random_sel, first_sel>>
       ELSE /\ random_sel' = SampleResult(database, N_SAMPLE)
            /\ first_sel' = SampleResult(database, N_SAMPLE)
            /\ UNCHANGED raised
    /\ sample_runs' = 1
    /\ pc' = "xy"
    /\ UNCHANGED <<seed_stream, N_SAMPLE, labelVars, clsVars, regVars,
                   evaluated, filterVars, dockVars, scoreVars>>

\* X, y = random_sel.RDKit.values.tolist(), random_sel.Scores.values.tolist()
XYCell ==
    /\ pc = "xy"
    /\ IF "sample" \in raised
       THEN /\ raised' = raised \cup {"xy"}      \* NameError: random_sel
            /\ UNCHANGED <<X, y>>
       ELSE /\ X' = [i \in 1..Len(random_sel) |-> random_sel[i].RDKit]
            /\ y' = [i \in 1..Len(random_sel) |-> random_sel[i].Scores]
            /\ UNCHANGED raised
    /\ pc' = "categorical"
    /\ UNCHANGED <<threshold, y_cls, seed_stream, N_SAMPLE, sampleVars,
                   clsVars, regVars, evaluated, filterVars, dockVars,
                   scoreVars>>

\* ------------------------------------------------------ train/test split
\* _validate_shuffle_split with a float test_size of pct percent and
\* train_size=None: n_test = ceil(test_size * n), n_train = n - n_test
NTest(n, pct) == (pct * n + 99) \div 100
NTrain(n, pct) == n - NTest(n, pct)

\* ValueError of _validate_shuffle_split: no sample, or an empty train set
SplitSizesBad(n, pct) == n = 0 \/ NTrain(n, pct) = 0

\* a split whose train part also holds the first test row
ShuffleSplitOverlap(n, pct, g) ==
    LET perm == Permutation(g, n)
    IN  [test |-> SubSeq(perm, 1, NTest(n, pct)),
         train |-> SubSeq(perm, NTest(n, pct), n)]

\* ShuffleSplit._iter_indices: one permutation of the rows; its first n_test
\* entries are the test rows, the next n_train the train rows
ShuffleSplit(n, pct, g) ==
    LET perm == Permutation(g, n)
    IN  [test |-> SubSeq(perm, 1, NTest(n, pct)),
         train |-> SubSeq(perm, NTest(n, pct) + 1,
                          NTest(n, pct) + NTrain(n, pct))]

\* np.unique(y): the classes present, False before True
Classes(labels) ==
    (IF FALSE \in Range(labels) THEN <<FALSE>> ELSE <<>>)
        \o (IF TRUE \in Range(labels) THEN <<TRUE>> ELSE <<>>)

\* the rows of a class, in ascending row order (stable argsort)
ClassIndices(labels, c) ==
    Keep([i \in 1..Len(labels) |-> i], [i \in 1..Len(labels) |-> labels[i] = c])

RECURSIVE Sum(_)
Sum(s) == IF s = <<>> THEN 0 ELSE Head(s) + Sum(Tail(s))

\* _approximate_mode(class_counts, n_draws, rng) for at most two classes:
\* the floor of each class's share of n_draws, the one missing draw given to
\* the class with the larger remainder, a tie broken by rng.choice
ApproximateMode(counts, n_draws, g) ==
    LET total == Sum(counts)
        floored == [j \in 1..Len(counts) |-> (counts[j] * n_draws) \div total]
        rem == [j \in 1..Len(counts) |-> (counts[j] * n_draws) % total]
        need == n_draws - Sum(floored)
        lucky == IF Len(counts) < 2 THEN 1
                 ELSE IF rem[1] > rem[2] THEN 1
                 ELSE IF rem[2] > rem[1] THEN 2
                 ELSE Permutation(g, 2)[1]
    IN  IF total = 0 \/ need = 0 THEN floored
        ELSE [j \in 1..Len(counts) |->
                 IF j = lucky THEN floored[j] + 1 ELSE floored[j]]

\* ValueErrors of StratifiedShuffleSplit: a class with fewer than 2 members,
\* or fewer train or test rows than classes
StratifyBad(labels, pct) ==
    LET cl == Classes(labels)
    IN  \/ \E j \in 1..Len(cl) : Len(ClassIndices(labels, cl[j])) < 2
        \/ NTrain(Len(labels), pct) < Len(cl)
        \/ NTest(Len(labels), pct) < Len(cl)

RECURSIVE Concat(_)
Concat(ss) == IF ss = <<>> THEN <<>> ELSE Head(ss) \o Concat(Tail(ss))

\* StratifiedShuffleSplit._iter_indices: per class, n_i rows go to train and
\* t_i to test, taken from a permutation of the class's rows; train and
\* test are then permuted
StratifiedShuffleSplit(labels, pct, g) ==
    LET n == Len(labels)
        cl == Classes(labels)
        idx == [j \in 1..Len(cl) |-> ClassIndices(labels, cl[j])]
        counts == [j \in 1..Len(cl) |-> Len(idx[j])]
        n_i == ApproximateMode(counts, NTrain(n, pct), g)
        t_i == ApproximateMode([j \in 1..Len(cl) |-> counts[j] - n_i[j]],
                               NTest(n, pct), Advance(g, 1))
        shuffled == [j \in 1..Len(cl) |->
                        Take(idx[j], Permutation(Advance(g, 1 + j), counts[j]))]
        train == Concat([j \in 1..Len(cl) |-> SubSeq(shuffled[j], 1, n_i[j])])
        test == Concat([j \in 1..Len(cl) |->
                           SubSeq(shuffled[j], n_i[j] + 1, n_i[j] + t_i[j])])
    IN  [train |-> Take(train, Permutation(Advance(g, 4), Len(train))),
         test |-> Take(test, Permutation(Advance(g, 5), Len(test)))]

\* train_test_split(X, y_cls, test_size=0.20, random_state=42, shuffle=True,
\*                  stratify=y_cls)
SplitClsCell ==
    /\ pc = "split_cls"
    /\ IF \/ "categorical" \in raised                  \* NameError: y_cls
          \/ SplitSizesBad(Len(X), 20)                 \* ValueError
          \/ StratifyBad(y_cls, 20)                    \* ValueError
       THEN /\ raised' = raised \cup {"split_cls"}
            /\ UNCHANGED split_cls
       ELSE /\ split_cls' = StratifiedShuffleSplit(y_cls, 20,
                                                   CheckRandomState(42))
            /\ UNCHANGED raised
    /\ pc' = "fit_cls"
    /\ UNCHANGED <<clf, y_pred_cls, seed_stream, N_SAMPLE, sampleVars,
                   labelVars, regVars, evaluated, filterVars, dockVars,
                   scoreVars>>

\* train_test_split(X, y, test_size=0.30, random_state=42, shuffle=True)
SplitRegResult(n) == ShuffleSplit(n, 30, CheckRandomState(42))

SplitRegCell ==
    /\ pc = "split_reg"
    /\ IF "xy" \in raised \/ SplitSizesBad(Len(X), 30)
       THEN /\ raised' = raised \cup {"split_reg"}
            /\ UNCHANGED <<split_reg, first_split>>
       ELSE /\ split_reg' = SplitRegResult(Len(X))
            /\ first_split' = SplitRegResult(Len(X))
            /\ UNCHANGED raised
    /\ split_runs' = 1
    /\ pc' = "fit_reg"
    /\ UNCHANGED <<reg, y_pred, seed_stream, N_SAMPLE, sampleVars, labelVars,
                   clsVars, evaluated, filterVars, dockVars, scoreVars>>

\* ------------------------------------------------------ classifier cells
FPs == {1, 2}

\* the argument of predict(): X_train instead of X_test
PredictArgTrain(split) == split.train

\* the rows whose fingerprints are passed to predict(): X_test_cls / X_test
PredictArg(split) == split.test

\* clf.fit(X_train_cls, y_train_cls): the fitted forest is some function
\* from fingerprints to the classes seen in y_train_cls
FitClsCell ==
    /\ pc = "fit_cls"
    /\ IF "split_cls" \in raised
       THEN /\ raised' = raised \cup {"fit_cls"}    \* NameError: X_train_cls
            /\ UNCHANGED clf
       ELSE /\ \E f \in [FPs -> {y_cls[i] : i \in Range(split_cls.train)}] :
                  clf' = [fitted |-> TRUE, rows |-> split_cls.train, f |-> f]
            /\ UNCHANGED raised
    /\ pc' = "predict_cls"
    /\ UNCHANGED <<split_cls, y_pred_cls, seed_stream, N_SAMPLE, sampleVars,
                   labelVars, regVars, evaluated, filterVars, dockVars,
                   scoreVars>>

\* model.predict over the fingerprints of the rows `rows` of X
Predict(model, rows) ==
    [rows |-> rows, values |-> [i \in 1..Len(rows) |-> model.f[X[rows[i]]]]]

\* y_pred_cls = clf.predict(X_test_cls)
PredictClsCell ==
    /\ pc = "predict_cls"
    /\ IF "fit_cls" \in raised
       THEN /\ raised' = raised \cup {"predict_cls"}
            /\ UNCHANGED y_pred_cls
       ELSE /\ y_pred_cls' = Predict(clf, PredictArg(split_cls))
            /\ UNCHANGED raised
    /\ pc' = "metrics_cls"
    /\ UNCHANGED <<split_cls, clf, seed_stream, N_SAMPLE, sampleVars,
                   labelVars, regVars, evaluated, filterVars, dockVars,
                   scoreVars>>

\* a metric computed from the truth of the rows `truth` and the predictions
\* made for the rows `pred`
Metric(name, model, truth, pred) ==
    [metric |-> name, model |-> model, truth |-> truth, pred |-> pred.rows]

\* accuracy, F1, precision, recall and ROC-AUC of (y_test_cls, y_pred_cls);
\* roc_auc_score raises ValueError when y_test_cls holds one class only,
\* after the first four were computed
MetricsClsCell ==
    /\ pc = "metrics_cls"
    /\ IF "predict_cls" \in raised
       THEN /\ raised' = raised \cup {"metrics_cls"}
            /\ UNCHANGED evaluated
       ELSE LET both == Cardinality({y_cls[i] : i \in Range(split_cls.test)}) = 2
                names == {"accuracy", "f1", "precision", "recall"}
                            \cup (IF both THEN {"roc_auc"} ELSE {})
            IN  /\ evaluated' = evaluated \cup
                      {Metric(m, "clf", split_cls.test, y_pred_cls) : m \in names}
                /\ raised' = IF both THEN raised
                             ELSE raised \cup {"metrics_cls"}
    /\ pc' = "confusion"
    /\ UNCHANGED <<clsVars, seed_stream, N_SAMPLE, sampleVars, labelVars,
                   regVars, filterVars, dockVars, scoreVars>>

\* metrics.confusion_matrix(y_test_cls, y_pred_cls)
ConfusionCell ==
    /\ pc = "confusion"
    /\ IF "predict_cls" \in raised
       THEN /\ raised' = raised \cup {"confusion"}
            /\ UNCHANGED evaluated
       ELSE /\ evaluated' = evaluated \cup
                  {Metric("confusion", "clf", split_cls.test, y_pred_cls)}
            /\ UNCHANGED raised
    /\ pc' = "split_reg"
    /\ UNCHANGED <<clsVars, seed_stream, N_SAMPLE, sampleVars, labelVars,
                   regVars, filterVars, dockVars, scoreVars>>

\* ------------------------------------------------------- regressor cells
\* predicted scores a fitted regressor may give
RegPreds == {-2, -1}

\* reg.fit(X_train, y_train): the fitted forest is some function from
\* fingerprints to scores; a NaN in y_train is a ValueError
FitRegCell ==
    /\ pc = "fit_reg"
    /\ IF \/ "split_reg" \in raised
          \/ \E i \in Range(split_reg.train) : y[i] = NaN
       THEN /\ raised' = raised \cup {"fit_reg"}
            /\ UNCHANGED reg
       ELSE /\ \E f \in [FPs -> RegPreds] :
                  reg' = [fitted |-> TRUE, rows |-> split_reg.train, f |-> f]
            /\ UNCHANGED raised
    /\ pc' = "predict_reg"
    /\ UNCHANGED <<split_reg, split_runs, first_split, y_pred, seed_stream,
                   N_SAMPLE, sampleVars, labelVars, clsVars, evaluated,
                   filterVars, dockVars, scoreVars>>

\* y_pred = reg.predict(X_test)
PredictRegCell ==
    /\ pc = "predict_reg"
    /\ IF "fit_reg" \in raised
       THEN /\ raised' = raised \cup {"predict_reg"}
            /\ UNCHANGED y_pred
       ELSE /\ y_pred' = Predict(reg, PredictArg(split_reg))
            /\ UNCHANGED raised
    /\ pc' = "residuals"
    /\ UNCHANGED <<split_reg, split_runs, first_split, reg, seed_stream,
                   N_SAMPLE, sampleVars, labelVars, clsVars, evaluated,
                   filterVars, dockVars, scoreVars>>

\* sns.regplot / sns.residplot of (y_pred, y_test)
ResidualsCell ==
    /\ pc = "residuals"
    /\ IF "predict_reg" \in raised
       THEN /\ raised' = raised \cup {"residuals"}
            /\ UNCHANGED evaluated
       ELSE /\ evaluated' = evaluated \cup
                  {Metric("residuals", "reg", split_reg.test, y_pred)}
            /\ UNCHANGED raised
    /\ pc' = "pearson"
    /\ UNCHANGED <<regVars, seed_stream, N_SAMPLE, sampleVars, labelVars,
                   clsVars, filterVars, dockVars, scoreVars>>

\* pearsonr(y_pred, y_test): ValueError for fewer than two values
PearsonCell ==
    /\ pc = "pearson"
    /\ IF "predict_reg" \in raised \/ Len(y_pred.rows) < 2
       THEN /\ raised' = raised \cup {"pearson"}
            /\ UNCHANGED evaluated
       ELSE /\ evaluated' = evaluated \cup
                  {Metric("pearson", "reg", split_reg.test, y_pred)}
            /\ UNCHANGED raised
    /\ pc' = "scan"
    /\ UNCHANGED <<regVars, seed_stream, N_SAMPLE, sampleVars, labelVars,
                   clsVars, filterVars, dockVars, scoreVars>>

\* ------------------------------------------------------- scorer cells
\* database.drop(random_sel ...) before scoring: the rows outside the sample
ScanInputUnsampled(df, sel) ==
    Keep(df, [i \in 1..Len(df) |-> df[i].id \notin Ids(sel)])

\* the rows whose fingerprints are scored: database.RDKit.values.tolist() is
\* taken from the whole of `database`, the sampled rows included
ScanInput(df, sel) == df

\* predict validates its input (check_array): a batch without samples is
\* rejected with ValueError
PredictRejects(batch) == Len(batch) = 0

\* reg.predict(batch): one output per input row, from that row's fingerprint
PredictBatch(model, batch) ==
    [i \in 1..Len(batch) |-> model.f[batch[i].RDKit]]

\* predicted_scores = reg.predict(database.RDKit.values.tolist())
ScanCell ==
    /\ pc = "scan"
    /\ IF \/ "fit_reg" \in raised                        \* NotFittedError
          \/ PredictRejects(ScanInput(database, random_sel))  \* ValueError
       THEN /\ raised' = raised \cup {"scan"}
            /\ UNCHANGED predicted_scores
       ELSE /\ predicted_scores' =
                  PredictBatch(reg, ScanInput(database, random_sel))
            /\ UNCHANGED raised
    /\ pc' = "attach"
    /\ UNCHANGED <<biased_sel, seed_stream, N_SAMPLE, trainVars, filterVars,
                   dockVars>>

\* df['Predictions'] = pd.Series(values): a Series is aligned on the index
\* labels, a row whose label is not a position of values gets NaN
SetColumnAligned(df, values) ==
    [i \in 1..Len(df) |->
        WithPrediction(df[i], IF df[i].label + 1 \in 1..Len(values)
                              THEN values[df[i].label + 1] ELSE NaN)]

\* df['Predictions'] = values, values an ndarray: assigned by position, the
\* other columns, the index and the row order stay
SetColumn(df, values) ==
    [i \in 1..Len(df) |-> WithPrediction(df[i], values[i])]

\* database['Predictions'] = predicted_scores
AttachCell ==
    /\ pc = "attach"
    /\ IF \/ "scan" \in raised                  \* NameError: predicted_scores
          \/ Len(predicted_scores) # Len(database)   \* ValueError: length
       THEN /\ raised' = raised \cup {"attach"}
            /\ UNCHANGED database
       ELSE /\ database' = SetColumn(database, predicted_scores)
            /\ UNCHANGED raised
    /\ pc' = "select"
    /\ UNCHANGED <<loaded, removed, before, source, filter_runs, scoreVars,
                   seed_stream, N_SAMPLE, trainVars, dockVars>>

\* ----------------------------------------------------------- the notebook
\* the filter cell in the top-to-bottom run
FilterCellStep ==
    /\ pc = "filter"
    /\ FilterEffect
    /\ pc' = "sample"

PipelineScores == {-2, -1, 1}

\* the table under a RangeIndex of n rows whose (fingerprint, score) are
\* f[1..n]
RangeTable(n, f) ==
    [i \in 1..n |-> [id |-> i, label |-> i - 1, RDKit |-> f[i][1],
                     Scores |-> f[i][2]]]

Init ==
    /\ DockIdle
    /\ TrainIdle
    /\ ScoreIdle
    /\ \E n \in 1..MaxRows : \E f \in [1..n -> FPs \X PipelineScores] :
          loaded = RangeTable(n, f)
    /\ database = loaded
    /\ removed = {}
    /\ before = loaded
    /\ source = loaded
    /\ filter_runs = 0
    /\ N_SAMPLE \in 1..MaxRows
    /\ raised = {}
    /\ seed_stream \in Streams
    /\ pc = "filter"

TrainCells ==
    \/ SampleCell
    \/ XYCell
    \/ MakeCategoricalCell
    \/ SplitClsCell
    \/ FitClsCell
    \/ PredictClsCell
    \/ MetricsClsCell
    \/ ConfusionCell
    \/ SplitRegCell
    \/ FitRegCell
    \/ PredictRegCell
    \/ ResidualsCell
    \/ PearsonCell

Next ==
    \/ FilterCellStep
    \/ TrainCells
    \/ ScanCell
    \/ AttachCell
    \/ SelectCell

Spec == Init /\ [][Next]_vars

\* ------------------------------------------- the trainer on larger samples
\* (fingerprint, score) of the rows of an already filtered database
TrainKinds == {<<1, -2>>, <<2, -1>>, <<1, -1>>}

InitTrain ==
    /\ DockIdle
    /\ TrainIdle
    /\ ScoreIdle
    /\ \E n \in 1..MaxSample : \E f \in [1..n -> TrainKinds] :
          loaded = RangeTable(n, f)
    /\ database = loaded
    /\ removed = {}
    /\ before = loaded
    /\ source = loaded
    /\ filter_runs = 1
    /\ N_SAMPLE = Len(loaded)
    /\ raised = {}
    /\ seed_stream \in Streams
    /\ pc = "sample"

NextTrain == TrainCells

SpecTrain == InitTrain /\ [][NextTrain]_vars

\* ----------------------------------------------- repeated execution
\* the sample cell is executed once more
RerunSampleCell ==
    /\ pc # "sample"
    /\ "sample" \notin raised
    /\ sample_runs < MaxRuns
    /\ random_sel' = SampleResult(database, N_SAMPLE)
    /\ sample_runs' = sample_runs + 1
    /\ UNCHANGED <<first_sel, ctlVars, labelVars, clsVars, regVars, evaluated,
                   filterVars, dockVars, scoreVars>>

\* the regressor's split cell is executed once more
RerunSplitRegCell ==
    /\ pc = "fit_reg"
    /\ "split_reg" \notin raised
    /\ split_runs < MaxRuns
    /\ split_reg' = SplitRegResult(Len(X))
    /\ split_runs' = split_runs + 1
    /\ UNCHANGED <<first_split, reg, y_pred, ctlVars, sampleVars, labelVars,
                   clsVars, evaluated, filterVars, dockVars, scoreVars>>

\* the reader goes on to the regressor section without executing the
\* classifier section, which the regressor section does not depend on
SkipClassifierSection ==
    /\ pc = "categorical"
    /\ pc' = "split_reg"
    /\ UNCHANGED <<raised, seed_stream, N_SAMPLE, trainVars, filterVars,
                   dockVars, scoreVars>>

NextRepeat ==
    \/ SampleCell
    \/ RerunSampleCell
    \/ XYCell
    \/ SkipClassifierSection
    \/ SplitRegCell
    \/ RerunSplitRegCell

SpecRepeat == InitTrain /\ [][NextRepeat]_vars

\* ------------------------------------------------------------------ claims
CellOrder ==
    <<"filter", "sample", "xy", "categorical", "split_cls", "fit_cls",
      "predict_cls", "metrics_cls", "confusion", "split_reg", "fit_reg",
      "predict_reg", "residuals", "pearson", "scan", "attach", "select",
      "end">>

CellNo(c) == CHOOSE i \in 1..Len(CellOrder) : CellOrder[i] = c

\* the cell c has been executed and did not raise
Done(c) == CellNo(pc) > CellNo(c) /\ c \notin raised

\* train and test partition the rows 1..n: sizes add up, nothing is in both,
\* nothing is twice in one part
Partitions(split, n) ==
    /\ Len(split.train) + Len(split.test) = n
    /\ Range(split.train) \cap Range(split.test) = {}
    /\ Range(split.train) \cup Range(split.test) = 1..n
    /\ Cardinality(Range(split.train)) = Len(split.train)
    /\ Cardinality(Range(split.test)) = Len(split.test)

Ratios == {10, 20, 30, 40, 50, 60, 70, 80, 90}

\* C3: both train/test splits partition the sample: |train| + |test| = |D|
\* and no record is in both; so does a split at every other ratio.
C3_SplitsPartitionSample ==
    /\ Done("split_cls") => Partitions(split_cls, Len(random_sel))
    /\ Done("split_reg") => Partitions(split_reg, Len(random_sel))
    /\ pc = "split_cls" /\ Done("categorical") =>
          \A pct \in Ratios :
              /\ ~SplitSizesBad(Len(X), pct) =>
                    Partitions(ShuffleSplit(Len(X), pct, CheckRandomState(42)),
                               Len(X))
              /\ (~SplitSizesBad(Len(X), pct) /\ ~StratifyBad(y_cls, pct)) =>
                    Partitions(StratifiedShuffleSplit(y_cls, pct,
                                   CheckRandomState(42)), Len(X))

\* both splits were made, the stratified one of a sample with two classes
C3_Witness ==
    /\ Done("split_cls")
    /\ Done("split_reg")
    /\ Len(random_sel) = 6
    /\ {y_cls[i] : i \in Range(split_cls.test)} = {TRUE, FALSE}
    /\ Len(split_reg.test) = 2

\* C9: every metric is computed from predictions for the rows of the test
\* partition only: no row passed to fit() is among the rows whose
\* predictions are evaluated.
C9_MetricsOnHeldOutRows ==
    \A e \in evaluated :
        LET model == IF e.model = "clf" THEN clf ELSE reg
            split == IF e.model = "clf" THEN split_cls ELSE split_reg
        IN  /\ model.fitted
            /\ Range(e.pred) \cap Range(model.rows) = {}
            /\ e.pred = split.test
            /\ e.truth = split.test
            /\ \A i \in Range(e.pred) : \A j \in Range(model.rows) :
                  random_sel[i].id # random_sel[j].id

\* all the metrics of both models were computed
C9_Witness ==
    /\ {e.metric : e \in evaluated} =
          {"accuracy", "f1", "precision", "recall", "roc_auc", "confusion",
           "residuals", "pearson"}
    /\ \A e \in evaluated : Len(e.pred) >= 2

C10_RemovedNeverReappear ==
    /\ removed = {i \in Ids(loaded) : Gt(loaded[i].Scores, 0)}
          \/ pc = "filter"
    /\ pc # "filter" =>
          /\ removed \cap Ids(database) = {}
          /\ removed \cap Ids(random_sel) = {}
          /\ removed \cap Ids(biased_sel) = {}
          /\ Len(predicted_scores) \in {0, Len(database)}

\* the run reached the selection after the filter dropped a record
C10_Witness ==
    /\ pc = "end"
    /\ removed # {}
    /\ Len(random_sel) >= 2
    /\ biased_sel # <<>>


\* C12: the scorer gives every row of the filtered database exactly one
\* predicted score, computed from that row's own fingerprint, and changes
\* nothing else: scanning leaves the database as it is, and attaching keeps
\* the number of rows, their order and each row's id, index label,
\* fingerprint and docking score, adding only the Predictions field.
C12_ScorerOnlyAddsPredictions ==
    [][/\ (pc = "scan" /\ "scan" \notin raised') =>
             /\ database' = database
             /\ Len(predicted_scores') = Len(database)
             /\ \A i \in 1..Len(database) :
                   predicted_scores'[i] = reg.f[database[i].RDKit]
       /\ (pc = "attach" /\ "attach" \notin raised') =>
             /\ Len(database') = Len(database)
             /\ \A i \in 1..Len(database) :
                   /\ DOMAIN database'[i] =
                          DOMAIN database[i] \cup {"Predictions"}
                   /\ \A c \in DOMAIN database[i] :
                          database'[i][c] = database[i][c]
                   /\ database'[i].Predictions = reg.f[database[i].RDKit]
      ]_vars

\* the scorer has run on a database that lost a row to the filter and holds
\* two rows with different fingerprints and different predicted scores
C12_Witness ==
    /\ Done("attach")
    /\ pc = "select"
    /\ removed # {}
    /\ \E i, j \in 1..Len(database) :
          /\ database[i].RDKit # database[j].RDKit
          /\ database[i].Predictions # database[j].Predictions



\* C15: the rows of the random training sample are never removed from the
\* database: once sampled, every row of random_sel (so every train and test
\* row) is a row of `database`; the scan scores it with the others, after
\* the attach it is a row of the scored database with its fingerprint and
\* docking score, and the selection is taken from all rows of the scored
\* database, the sampled ones included.
C15_SampleStaysInDatabase ==
    /\ Done("sample") => Ids(random_sel) \subseteq Ids(database)
    /\ Done("scan") =>
          /\ Len(predicted_scores) = Len(database)
          /\ \A i \in 1..Len(random_sel) :
                \E k \in 1..Len(predicted_scores) :
                   database[k].id = random_sel[i].id
    /\ Done("attach") =>
          \A i \in 1..Len(random_sel) : \E k \in 1..Len(database) :
             /\ database[k].id = random_sel[i].id
             /\ database[k].RDKit = random_sel[i].RDKit
             /\ database[k].Scores = random_sel[i].Scores
             /\ database[k].Predictions = predicted_scores[k]
    /\ Done("select") =>
          \A k \in 1..Len(database) :
             (\A j \in 1..Len(database) :
                 j # k => Lt(database[k].Predictions, database[j].Predictions))
                => database[k].id \in Ids(biased_sel)

\* the selection is a proper part of the scored database and holds a row the
\* regressor was fitted on: the random and the biased selection overlap
C15_Witness ==
    /\ Done("select")
    /\ Len(biased_sel) < Len(database)
    /\ \E t \in Range(split_reg.train) :
          random_sel[t].id \in Ids(biased_sel)
    /\ Ids(random_sel) \cap Ids(biased_sel) # {}

\* ------------------------------------------------- predict on any batch
\* reg.predict applied to a batch of any size, the empty one included, by a
\* regressor fitted on any number of rows: `database` is the frame whose
\* fingerprints are passed, reg.rows the rows the regressor was fitted on
InitPredict ==
    /\ DockIdle
    /\ SampleIdle
    /\ LabelIdle
    /\ split_cls = NoSplit
    /\ clf = Unfitted
    /\ y_pred_cls = NoPrediction
    /\ split_reg = NoSplit
    /\ split_runs = 0
    /\ first_split = NoSplit
    /\ y_pred = NoPrediction
    /\ evaluated = {}
    /\ \E k \in 1..MaxSample : \E f \in [FPs -> RegPreds] :
          reg = [fitted |-> TRUE, rows |-> [i \in 1..k |-> i], f |-> f]
    /\ ScoreIdle
    /\ \E n \in 0..MaxRows : \E f \in [1..n -> FPs \X {-1}] :
          loaded = RangeTable(n, f)
    /\ database = loaded
    /\ removed = {}
    /\ before = loaded
    /\ source = loaded
    /\ filter_runs = 1
    /\ pc = "scan"
    /\ raised = {}
    /\ seed_stream = 0
    /\ N_SAMPLE = 0

NextPredict == ScanCell

SpecPredict == InitPredict /\ [][NextPredict]_vars

\* C13: predict of the fitted regressor accepts a batch of any size, whatever
\* the number of rows it was fitted on, and returns exactly one output per
\* input; for the empty batch it returns the empty output without raising.
C13_PredictOneOutputPerInput ==
    pc = "attach" =>
        /\ "scan" \notin raised
        /\ Len(predicted_scores) = Len(database)

=============================================================================
